---- MODULE Spec2Model ----
(***************************************************************************)
(* Model of the rustic-insights metrics gateway: the MetricsRegistry       *)
(* (src/src/metrics/registry.rs), the MetricsCollector batch processor     *)
(* (src/src/metrics/collector.rs), the request validation                   *)
(* (src/src/api/models.rs) and the ingest handler                           *)
(* (src/src/api/handlers.rs).                                               *)
(*                                                                         *)
(* Strings that the code inspects character by character (metric names,    *)
(* label keys) are sequences of one-character strings.  f64 values are      *)
(* integers.  The prometheus crate is modelled by what the registry relies  *)
(* on: descriptor validation, duplicate detection on the fully qualified    *)
(* name, with_label_values' arity check, inc_by / set / observe.            *)
(***************************************************************************)
EXTENDS Integers, Sequences, FiniteSets, TLC

VARIABLES
    counters,     \* registry.rs:13  HashMap<String, CounterVec>
    gauges,       \* registry.rs:14  HashMap<String, GaugeVec>
    histograms,   \* registry.rs:15  HashMap<String, HistogramVec>
    label_keys,   \* registry.rs:16  HashMap<String, Vec<String>>
    registry,     \* registry.rs:12  prometheus Registry: registered descriptor names
    lk_readers,   \* workers holding the label_keys read lock across an await
    pc,           \* per worker: position in the running call
    op,           \* per worker: the call being run
    phase,        \* per worker: which registry call of process_metric is running
    cur,          \* per worker: the measurement being handled
    lv,           \* per worker: update_metric's local label_values
    batch,        \* per worker: the batch handed to process_batch / ingest_metrics
    idx,          \* per worker: number of batch items consumed by the for loop
    response,     \* per worker: process_batch's local MetricsResponse
    results,      \* per worker: the result of process_metric for each consumed item
    trace,        \* per worker: registry calls made for the current / last item
    ret,          \* per worker: what the last finished call returned
    snap,         \* per worker: registry contents when the current item / call began
    prev,         \* per worker: the call before the current one, and what it returned
    registered,   \* names for which a register_metric call has returned Ok
    ncalls,       \* number of calls started so far
    count         \* per worker: get_metrics_count's sum of the map sizes read so far

vars == <<counters, gauges, histograms, label_keys, registry, lk_readers, pc, op,
          phase, cur, lv, batch, idx, response, results, trace, ret, snap, prev,
          registered, ncalls, count>>

regvars == <<counters, gauges, histograms, label_keys, registry>>

---------------------------------------------------------------------------
(* Bounds *)

\* Spec: number of register_metric / update_metric calls.
MaxCalls == 3
\* SpecBatch: number of registry calls made before the collector call.
MaxSetup == 1
\* SpecBatch: number of measurements in a batch.
MaxBatch == 3
\* SpecConc: number of measurements in each worker's batch.
MaxConcBatch == 1
\* SpecLive: number of registry calls the concurrent callers make in total.
MaxLiveCalls == 3
\* SpecValidate: length of the names and label keys, and of the batches, that
\* are validated.
MaxNameLen == 2
MaxValBatch == 2

---------------------------------------------------------------------------
(* Characters and the orderings / classes the code uses *)

\* UTF-8 byte order of the characters the model uses (String's Ord).
CharOrder == <<" ", "-", "1", ":", "Z", "_", "a", "b", "c", "e", "i", "l", "m", "p", "r",
               "s", "t", "v", "x", "y", "z", "é">>

Chars == {CharOrder[i] : i \in 1..Len(CharOrder)}

CharCode(c) == CHOOSE i \in 1..Len(CharOrder) : CharOrder[i] = c

AsciiLetters == {"Z", "a", "b", "e", "l", "p", "x", "y", "z", "c", "d", "f", "g", "h", "i",
                 "j", "k", "m", "n", "o", "q", "r", "s", "t", "u", "v", "w"}
AsciiDigits == {"1"}
OtherLetters == {"é"}

\* char::is_alphanumeric is Unicode-aware.
is_alphanumeric(c) == c \in AsciiLetters \cup AsciiDigits \cup OtherLetters

RECURSIVE StrLess(_, _)
\* String comparison: lexicographic by bytes.
StrLess(s, t) ==
    IF t = <<>> THEN FALSE
    ELSE IF s = <<>> THEN TRUE
    ELSE IF CharCode(Head(s)) # CharCode(Head(t))
         THEN CharCode(Head(s)) < CharCode(Head(t))
         ELSE StrLess(Tail(s), Tail(t))

RECURSIVE SortStrings(_)
\* Vec<String>::sort on a set of distinct strings (HashMap keys).
SortStrings(S) ==
    IF S = {} THEN <<>>
    ELSE LET m == CHOOSE x \in S : \A y \in S \ {x} : StrLess(x, y)
         IN <<m>> \o SortStrings(S \ {m})

---------------------------------------------------------------------------
(* Results and errors (src/src/errors.rs) *)

Ok == [ok |-> TRUE, variant |-> "", msg |-> "", arg |-> <<>>]

Err(variant, msg, arg) == [ok |-> FALSE, variant |-> variant, msg |-> msg, arg |-> arg]

\* Ok(v), for a call that returns a value.
OkWith(v) == [ok |-> TRUE, variant |-> "", msg |-> "", arg |-> v]

Panic == [ok |-> FALSE, variant |-> "panic", msg |-> "with_label_values", arg |-> <<>>]

\* thiserror Display: the variant's prefix followed by the message.
to_string(e) ==
    [prefix |-> CASE e.variant = "ValidationError" -> "Invalid input: "
                  [] e.variant = "MetricsProcessingError" -> "Failed to process metrics: "
                  [] e.variant = "MetricRegistrationError" -> "Failed to register metric: "
                  [] OTHER -> "Internal server error: ",
     msg |-> e.msg, arg |-> e.arg]

---------------------------------------------------------------------------
(* Configuration (src/src/config.rs, AppConfig::default) *)

metrics_prefix == <<"a", "p", "p">>
metrics_namespace == <<"m", "e", "t", "r", "i", "c", "s", "_", "s", "e", "r", "v", "e", "r">>

\* format!("{}_{}_{}", prefix, namespace, name)
full_name(name) == metrics_prefix \o <<"_">> \o metrics_namespace \o <<"_">> \o name

---------------------------------------------------------------------------
(* Measurements (src/src/metrics/types.rs) *)

MetricTypes == {"counter", "gauge", "histogram", "summary"}

\* Metric { name, metric_type, help, labels, value }; labels is a HashMap, here a
\* function from label keys to label values.
Metric(name, type, help, labels, value) ==
    [name |-> name, metric_type |-> type, help |-> help, labels |-> labels, value |-> value]

NoLabels == [k \in {} |-> <<>>]

Put(map, k, v) == [x \in (DOMAIN map) \cup {k} |-> IF x = k THEN v ELSE map[x]]

---------------------------------------------------------------------------
(* The prometheus crate, as far as the registry relies on it *)

\* Desc::new: a metric name matches [a-zA-Z_:][a-zA-Z0-9_:]* (ASCII only).
is_valid_metric_name(n) ==
    /\ n # <<>>
    /\ Head(n) \in AsciiLetters \cup {"_", ":"}
    /\ \A i \in 1..Len(n) : n[i] \in AsciiLetters \cup AsciiDigits \cup {"_", ":"}

\* Desc::new: a label name matches [a-zA-Z_][a-zA-Z0-9_]* (ASCII only).
is_valid_label_name(n) ==
    /\ n # <<>>
    /\ Head(n) \in AsciiLetters \cup {"_"}
    /\ \A i \in 1..Len(n) : n[i] \in AsciiLetters \cup AsciiDigits \cup {"_"}

\* CounterVec::new / GaugeVec::new / HistogramVec::new: the descriptor is checked,
\* the vector starts with no children.
VecNew(name, help, label_names) ==
    IF help = "" THEN [res |-> Err("MetricRegistrationError", "empty help string", <<>>)]
    ELSE IF ~is_valid_metric_name(name)
    THEN [res |-> Err("MetricRegistrationError", "'{}' is not a valid metric name", name)]
    ELSE IF \E i \in 1..Len(label_names) : ~is_valid_label_name(label_names[i])
    THEN [res |-> Err("MetricRegistrationError", "'{}' is not a valid label name",
                      label_names[CHOOSE i \in 1..Len(label_names) :
                                     /\ ~is_valid_label_name(label_names[i])
                                     /\ \A j \in 1..(i-1) : is_valid_label_name(label_names[j])])]
    ELSE [res |-> Ok,
          vec |-> [label_names |-> label_names, help |-> help,
                   children |-> [k \in {} |-> 0]]]

\* A registry without duplicate detection (a fault the one-instrument-per-name
\* property has to detect).
RegistryRegisterAny(reg, name) == [res |-> Ok, reg |-> reg \cup {name}]

\* Registry::register: a descriptor with an already registered fully qualified name
\* is refused (AlreadyReg), whatever its type.
RegistryRegister(reg, name) ==
    IF name \in reg
    THEN [res |-> Err("MetricRegistrationError",
                      "Duplicate metrics collector registration attempted", <<>>),
          reg |-> reg]
    ELSE [res |-> Ok, reg |-> reg \cup {name}]

\* MetricVec::with_label_values unwraps: it panics unless one value per label
\* name is given.
WithLabelValuesPanics(vec, label_values) == Len(label_values) # Len(vec.label_names)

\* The child's current value, created at `zero` on first use.
Child(vec, label_values, zero) ==
    IF label_values \in DOMAIN vec.children THEN vec.children[label_values] ELSE zero

SetChild(vec, label_values, v) ==
    [vec EXCEPT !.children = Put(vec.children, label_values, v)]

\* Counter::inc_by carries debug_assert!(v >= 0): a negative value panics in a
\* build with debug assertions and is added in a build without them.
IncByAsserts(v) == v < 0

\* A counter that folds every observation in twice.
IncByTwice(vec, label_values, v) ==
    SetChild(vec, label_values, Child(vec, label_values, 0) + v + v)

\* A counter whose increment stores the observation over the value it found.
IncByStores(vec, label_values, v) == SetChild(vec, label_values, v)

\* Counter::inc_by
IncBy(vec, label_values, v) ==
    SetChild(vec, label_values, Child(vec, label_values, 0) + v)

\* Gauge::set
GaugeSet(vec, label_values, v) == SetChild(vec, label_values, v)

HistZero == [sample_count |-> 0, sample_sum |-> 0]

\* Histogram::observe (the bucket counts follow from the observations and are
\* not kept).
Observe(vec, label_values, v) ==
    LET h == Child(vec, label_values, HistZero)
    IN SetChild(vec, label_values,
                [sample_count |-> h.sample_count + 1, sample_sum |-> h.sample_sum + v])

---------------------------------------------------------------------------
(* MetricsRegistry (src/src/metrics/registry.rs) *)

\* A registration that replaces the vector of a name the map already has by a
\* new, empty one.
RegisterVecReplaces(map, reg, name, help, label_names) ==
    LET v == VecNew(name, help, label_names)
    IN IF ~v.res.ok THEN [res |-> v.res, map |-> map, reg |-> reg]
       ELSE IF name \in DOMAIN map
       THEN [res |-> Ok, map |-> Put(map, name, v.vec), reg |-> reg]
       ELSE LET r == RegistryRegister(reg, name)
            IN IF ~r.res.ok THEN [res |-> r.res, map |-> map, reg |-> reg]
               ELSE [res |-> Ok, map |-> Put(map, name, v.vec), reg |-> r.reg]

\* A registration that ignores the registry's refusal and stores the vector
\* anyway.
RegisterVecUnchecked(map, reg, name, help, label_names) ==
    IF name \in DOMAIN map THEN [res |-> Ok, map |-> map, reg |-> reg]
    ELSE LET v == VecNew(name, help, label_names)
         IN IF ~v.res.ok THEN [res |-> v.res, map |-> map, reg |-> reg]
            ELSE [res |-> Ok, map |-> Put(map, name, v.vec), reg |-> reg \cup {name}]

\* A registration that stores the vector before asking the registry, and leaves
\* it in the map when the registry refuses.
RegisterVecHalfCreates(map, reg, name, help, label_names) ==
    IF name \in DOMAIN map THEN [res |-> Ok, map |-> map, reg |-> reg]
    ELSE LET v == VecNew(name, help, label_names)
         IN IF ~v.res.ok THEN [res |-> v.res, map |-> map, reg |-> reg]
            ELSE LET r == RegistryRegister(reg, name)
                 IN IF ~r.res.ok
                    THEN [res |-> r.res, map |-> Put(map, name, v.vec), reg |-> reg]
                    ELSE [res |-> Ok, map |-> Put(map, name, v.vec), reg |-> r.reg]

\* register_counter / register_gauge / register_histogram: under the map's write
\* lock, create and register the vector unless the map already has the name.
RegisterVec(map, reg, name, help, label_names) ==
    IF name \in DOMAIN map THEN [res |-> Ok, map |-> map, reg |-> reg]
    ELSE LET v == VecNew(name, help, label_names)
         IN IF ~v.res.ok THEN [res |-> v.res, map |-> map, reg |-> reg]
            ELSE LET r == RegistryRegister(reg, name)
                 IN IF ~r.res.ok THEN [res |-> r.res, map |-> map, reg |-> reg]
                    ELSE [res |-> Ok, map |-> Put(map, name, v.vec), reg |-> r.reg]

register_counter(map, reg, name, help, label_names) ==
    RegisterVec(map, reg, name, help, label_names)

register_gauge(map, reg, name, help, label_names) ==
    RegisterVec(map, reg, name, help, label_names)

register_histogram(map, reg, name, help, label_names) ==
    RegisterVec(map, reg, name, help, label_names)

\* register_metric, lines 38-39: the measurement's label keys, sorted.
SortedLabelKeys(metric) == SortStrings(DOMAIN metric.labels)

\* A layout that drops the measurement's label values.
LabelValuesBlank(schema, metric) == [i \in 1..Len(schema) |-> <<>>]

\* update_metric, lines 80-83: one value per schema key, the empty string for an
\* absent key.
LabelValues(schema, metric) ==
    [i \in 1..Len(schema) |->
        IF schema[i] \in DOMAIN metric.labels THEN metric.labels[schema[i]] ELSE <<>>]

\* An unknown name that is passed over in silence.
NotRegisteredSilent(name) == Ok

\* registry.rs:76-78: the name has no entry in label_keys.
NotRegistered(name) ==
    Err("MetricsProcessingError", "Metric '{}' not registered", name)

\* A type mismatch reported with the very error of an unknown name.
InstrumentMissingAsNotRegistered(kind, name) == NotRegistered(name)

\* registry.rs:91-95, 103-107, 115-119: the map of the measurement's type has no
\* instrument under the name.
InstrumentMissing(kind, name) ==
    Err("MetricsProcessingError",
        CASE kind = "counter" -> "Counter '{}' not registered"
          [] kind = "gauge" -> "Gauge '{}' not registered"
          [] OTHER -> "Histogram '{}' not registered",
        name)

\* A summary type that is let through.
SummaryAccepted(variant) == Ok

\* registry.rs:56-60 and 122-126: the summary type is refused, by register_metric
\* with a MetricRegistrationError and by update_metric with a
\* MetricsProcessingError.
SummaryNotSupported(variant) ==
    Err(variant, "Summary metrics are not supported yet", <<>>)

\* A count that leaves the histograms out.
MetricsCountNoHistograms == Cardinality(DOMAIN counters) + Cardinality(DOMAIN gauges)

\* get_metrics_count
MetricsCount == Cardinality(DOMAIN counters) + Cardinality(DOMAIN gauges)
                + Cardinality(DOMAIN histograms)

\* The instrument that contents c holds under a name.
VecOf(c, name) ==
    IF name \in DOMAIN c.counters THEN c.counters[name]
    ELSE IF name \in DOMAIN c.gauges THEN c.gauges[name]
    ELSE c.histograms[name]

KindOf(c, name) ==
    IF name \in DOMAIN c.counters THEN "counter"
    ELSE IF name \in DOMAIN c.gauges THEN "gauge"
    ELSE "histogram"

\* Registry::gather: the families of the registered collectors; a family without
\* any child is pruned.
Families(c) ==
    {n \in DOMAIN c.counters \cup DOMAIN c.gauges \cup DOMAIN c.histograms :
        DOMAIN VecOf(c, n).children # {}}

\* TextEncoder::encode for one family: the HELP line, the TYPE line, the samples.
EncodeFamily(c, name) ==
    <<[line |-> "HELP", name |-> name, text |-> VecOf(c, name).help],
      [line |-> "TYPE", name |-> name, text |-> KindOf(c, name)],
      [line |-> "samples", name |-> name, text |-> VecOf(c, name).children]>>

RECURSIVE Encode(_, _)
\* TextEncoder::encode: the families one after the other.
Encode(c, names) ==
    IF names = <<>> THEN <<>>
    ELSE EncodeFamily(c, Head(names)) \o Encode(c, Tail(names))

\* An empty text for an empty registry.
NoText == <<>>

\* registry.rs:139: the text returned when nothing was gathered.
NoMetricsText == <<[line |-> "#", name |-> <<>>, text |-> "No metrics found in registry"]>>

\* MetricsRegistry::gather (registry.rs:132-147); Registry::gather returns the
\* families sorted by name.
Gather(c) ==
    IF Families(c) = {} THEN OkWith(NoMetricsText)
    ELSE OkWith(Encode(c, SortStrings(Families(c))))

---------------------------------------------------------------------------
(* Request validation (src/src/api/models.rs) *)

ValidationError(msg, arg) == Err("ValidationError", msg, arg)

ReservedLabelNames == {<<"l", "e">>, <<"q", "u", "a", "n", "t", "i", "l", "e">>}

\* A label-key check that lets the reserved names through.
ValidateLabelKeyNoReserved(key) ==
    IF key = <<>> THEN ValidationError("Label name cannot be empty", <<>>)
    ELSE IF ~(\A i \in 1..Len(key) : is_alphanumeric(key[i]) \/ key[i] = "_")
    THEN ValidationError(
            "Label names must contain only alphanumeric characters and underscores", <<>>)
    ELSE Ok

\* models.rs:52-71: the checks made on one label key.
ValidateLabelKey(key) ==
    IF key = <<>> THEN ValidationError("Label name cannot be empty", <<>>)
    ELSE IF ~(\A i \in 1..Len(key) : is_alphanumeric(key[i]) \/ key[i] = "_")
    THEN ValidationError(
            "Label names must contain only alphanumeric characters and underscores", <<>>)
    ELSE IF key \in ReservedLabelNames
    THEN ValidationError("'{}' is a reserved label name", key)
    ELSE Ok

\* impl Validate for Metric (models.rs:25-76).  The label loop returns at the
\* first key that fails; measurements here carry at most one key, so HashMap
\* order does not matter.
ValidateMetric(m) ==
    IF m.name = <<>> THEN ValidationError("Metric name cannot be empty", <<>>)
    ELSE IF ~(\A i \in 1..Len(m.name) :
                 is_alphanumeric(m.name[i]) \/ m.name[i] = "_" \/ m.name[i] = ":")
    THEN ValidationError(
            "Metric name must contain only alphanumeric characters, underscores, and colons",
            <<>>)
    ELSE IF m.help = "" THEN ValidationError("Help text cannot be empty", <<>>)
    ELSE IF \E k \in DOMAIN m.labels : ~ValidateLabelKey(k).ok
    THEN ValidateLabelKey(CHOOSE k \in DOMAIN m.labels : ~ValidateLabelKey(k).ok)
    ELSE Ok

RECURSIVE LabelPairs(_, _)
\* models.rs:105-107: "k=v," for each label pair, in the order of the sorted keys.
LabelPairs(keys, labels) ==
    IF keys = <<>> THEN <<>>
    ELSE Head(keys) \o <<"=">> \o labels[Head(keys)] \o <<",">>
         \o LabelPairs(Tail(keys), labels)

\* A duplicate key that tells measurements of different types apart.
DuplicateKeyWithType(m) ==
    m.name \o <<":">> \o <<m.metric_type>> \o <<":">>
    \o LabelPairs(SortStrings(DOMAIN m.labels), m.labels)

\* models.rs:100-107: the key under which a measurement is looked up for the
\* duplicate check.
DuplicateKey(m) == m.name \o <<":">> \o LabelPairs(SortStrings(DOMAIN m.labels), m.labels)

\* A batch validation that leaves out the per-item validation.
ValidateBatchSkipsItems(b) ==
    IF b.source = "" THEN ValidationError("Source cannot be empty", <<>>)
    ELSE IF b.metrics = <<>>
    THEN ValidationError("Batch must contain at least one metric", <<>>)
    ELSE IF \E i \in 1..Len(b.metrics) :
               \E j \in 1..(i-1) : DuplicateKey(b.metrics[j]) = DuplicateKey(b.metrics[i])
    THEN ValidationError("Duplicate metric found: {} with the same set of labels", <<>>)
    ELSE Ok

\* impl Validate for MetricsBatch (models.rs:78-120).
ValidateBatch(b) ==
    IF b.source = "" THEN ValidationError("Source cannot be empty", <<>>)
    ELSE IF b.metrics = <<>>
    THEN ValidationError("Batch must contain at least one metric", <<>>)
    ELSE IF \E i \in 1..Len(b.metrics) : ~ValidateMetric(b.metrics[i]).ok
    THEN ValidateMetric(b.metrics[CHOOSE i \in 1..Len(b.metrics) :
                                     /\ ~ValidateMetric(b.metrics[i]).ok
                                     /\ \A j \in 1..(i-1) : ValidateMetric(b.metrics[j]).ok])
    ELSE IF \E i \in 1..Len(b.metrics) :
               \E j \in 1..(i-1) : DuplicateKey(b.metrics[j]) = DuplicateKey(b.metrics[i])
    THEN LET i == CHOOSE i \in 1..Len(b.metrics) :
                     /\ \E j \in 1..(i-1) :
                           DuplicateKey(b.metrics[j]) = DuplicateKey(b.metrics[i])
                     /\ \A k \in 1..(i-1) : \A j \in 1..(k-1) :
                           DuplicateKey(b.metrics[j]) # DuplicateKey(b.metrics[k])
         IN ValidationError("Duplicate metric found: {} with the same set of labels",
                            b.metrics[i].name)
    ELSE Ok

---------------------------------------------------------------------------
(* Workers and their calls *)

Procs == {1, 2}

NoMetric == Metric(<<>>, "none", "", NoLabels, 0)

\* MetricsBatch { metrics, source } (src/src/metrics/types.rs:29-33)
MetricsBatch(metrics, source) == [metrics |-> metrics, source |-> source]

NoBatch == MetricsBatch(<<>>, "")

\* A default response that starts out as a partial success.
DefaultResponsePartial == [processed |-> 0, status |-> "partial_success", errors |-> <<>>]

\* MetricsResponse::default (src/src/metrics/types.rs:41)
DefaultResponse == [processed |-> 0, status |-> "success", errors |-> <<>>]

\* The registry's contents, as one value.
Contents == [counters |-> counters, gauges |-> gauges, histograms |-> histograms,
             label_keys |-> label_keys, registry |-> registry]

Init ==
    /\ counters = [k \in {} |-> 0]
    /\ gauges = [k \in {} |-> 0]
    /\ histograms = [k \in {} |-> 0]
    /\ label_keys = [k \in {} |-> <<>>]
    /\ registry = {}
    /\ lk_readers = {}
    /\ pc = [p \in Procs |-> "idle"]
    /\ op = [p \in Procs |-> "none"]
    /\ phase = [p \in Procs |-> "none"]
    /\ cur = [p \in Procs |-> NoMetric]
    /\ lv = [p \in Procs |-> <<>>]
    /\ batch = [p \in Procs |-> NoBatch]
    /\ idx = [p \in Procs |-> 0]
    /\ response = [p \in Procs |-> DefaultResponse]
    /\ results = [p \in Procs |-> <<>>]
    /\ trace = [p \in Procs |-> <<>>]
    /\ ret = [p \in Procs |-> Ok]
    /\ snap = [p \in Procs |-> Contents]
    /\ prev = [p \in Procs |-> [op |-> "none", metric |-> NoMetric, ret |-> Ok]]
    /\ registered = {}
    /\ ncalls = 0
    /\ count = [p \in Procs |-> 0]

CollectorOps == {"process_batch", "ingest_metrics"}

\* A worker is between calls; after its collector call it makes no further call.
Free(p) == pc[p] \in {"idle", "done"} /\ op[p] \notin CollectorOps

\* What every call start resets.
StartCall(p, o, m, b, nextpc, ph) ==
    /\ op' = [op EXCEPT ![p] = o]
    /\ cur' = [cur EXCEPT ![p] = m]
    /\ batch' = [batch EXCEPT ![p] = b]
    /\ idx' = [idx EXCEPT ![p] = 0]
    /\ response' = [response EXCEPT ![p] = DefaultResponse]
    /\ results' = [results EXCEPT ![p] = <<>>]
    /\ trace' = [trace EXCEPT ![p] = <<>>]
    /\ lv' = [lv EXCEPT ![p] = <<>>]
    /\ phase' = [phase EXCEPT ![p] = ph]
    /\ pc' = [pc EXCEPT ![p] = nextpc]
    /\ snap' = [snap EXCEPT ![p] = Contents]
    /\ prev' = [prev EXCEPT ![p] = [op |-> op[p], metric |-> cur[p], ret |-> ret[p]]]
    /\ ncalls' = ncalls + 1
    /\ count' = [count EXCEPT ![p] = 0]

\* A caller invokes MetricsRegistry::register_metric(m).
CallRegisterMetric(p, M, max) ==
    /\ Free(p)
    /\ ncalls < max
    /\ \E m \in M : StartCall(p, "register_metric", m, NoBatch, "reg_map", "direct")
    /\ UNCHANGED <<regvars, lk_readers, ret, registered>>

\* A caller invokes MetricsRegistry::update_metric(m).
CallUpdateMetric(p, M, max) ==
    /\ Free(p)
    /\ ncalls < max
    /\ \E m \in M : StartCall(p, "update_metric", m, NoBatch, "upd_lk", "direct")
    /\ UNCHANGED <<regvars, lk_readers, ret, registered>>

\* A caller invokes MetricsRegistry::gather(), which takes none of the registry's
\* locks and returns the exposition text.
CallGather(p, max) ==
    /\ Free(p)
    /\ ncalls < max
    /\ StartCall(p, "gather", NoMetric, NoBatch, "done", "direct")
    /\ ret' = [ret EXCEPT ![p] = Gather(Contents)]
    /\ UNCHANGED <<regvars, lk_readers, registered>>

\* A caller invokes MetricsCollector::process_batch(b) (collector.rs:16-24).
CallProcessBatch(p, B) ==
    /\ Free(p)
    /\ \E b \in B : StartCall(p, "process_batch", NoMetric, b, "loop", "none")
    /\ UNCHANGED <<regvars, lk_readers, ret, registered>>

\* An ingest handler that hands every batch to process_batch, valid or not.
CallIngestMetricsUnvalidated(p, B) ==
    /\ Free(p)
    /\ \E b \in B : StartCall(p, "ingest_metrics", NoMetric, b, "loop", "none")
    /\ UNCHANGED <<regvars, lk_readers, ret, registered>>

\* A request reaches ingest_metrics (handlers.rs:59-85): the batch is validated;
\* a batch that fails validation is answered with the error and never reaches the
\* collector, a valid one is handed to process_batch, whose result is returned.
CallIngestMetrics(p, B) ==
    /\ Free(p)
    /\ \E b \in B :
          LET v == ValidateBatch(b)
          IN IF v.ok
             THEN /\ StartCall(p, "ingest_metrics", NoMetric, b, "loop", "none")
                  /\ UNCHANGED ret
             ELSE /\ StartCall(p, "ingest_metrics", NoMetric, b, "done", "none")
                  /\ ret' = [ret EXCEPT ![p] = v]
    /\ UNCHANGED <<regvars, lk_readers, registered>>

\* A caller invokes Metric::validate (models.rs:25-76), a pure function.
CallValidateMetric(p, M) ==
    /\ Free(p)
    /\ op[p] = "none"
    /\ \E m \in M : StartCall(p, "validate", m, NoBatch, "done", "direct")
    /\ ret' = [ret EXCEPT ![p] = ValidateMetric(cur'[p])]
    /\ UNCHANGED <<regvars, lk_readers, registered>>

\* A caller invokes MetricsBatch::validate (models.rs:78-120), a pure function.
CallValidateBatch(p, B) ==
    /\ Free(p)
    /\ op[p] = "none"
    /\ \E b \in B : StartCall(p, "validate_batch", NoMetric, b, "done", "direct")
    /\ ret' = [ret EXCEPT ![p] = ValidateBatch(batch'[p])]
    /\ UNCHANGED <<regvars, lk_readers, registered>>

---------------------------------------------------------------------------
(* process_batch's loop and process_metric (collector.rs) *)

\* An accounting that puts the newest error first.
AccountPrepends(resp, r) ==
    IF r.ok THEN [resp EXCEPT !.processed = @ + 1]
    ELSE [resp EXCEPT !.errors = <<to_string(r)>> \o @]

\* An accounting that counts failed items as processed too.
AccountCountsFailures(resp, r) ==
    [resp EXCEPT !.processed = @ + 1,
                 !.errors = IF r.ok THEN @ ELSE Append(@, to_string(r))]

\* An accounting that keeps no message for a failed measurement.
AccountForgetsErrors(resp, r) ==
    IF r.ok THEN [resp EXCEPT !.processed = @ + 1]
    ELSE resp

\* collector.rs:27-34: the match on process_metric's result.
Account(resp, r) ==
    IF r.ok THEN [resp EXCEPT !.processed = @ + 1]
    ELSE [resp EXCEPT !.errors = Append(@, to_string(r))]

\* A response that is never escalated to a batch-level error.
FinishNoEscalation(resp) ==
    IF resp.errors # <<>>
    THEN [res |-> Ok, response |-> [resp EXCEPT !.status = "partial_success"]]
    ELSE [res |-> Ok, response |-> resp]

\* collector.rs:37-47: the response after the loop.
Finish(resp) ==
    IF resp.errors # <<>>
    THEN IF resp.processed = 0
         THEN [res |-> Err("MetricsProcessingError",
                           "Failed to process any metrics in the batch", <<>>),
               response |-> [resp EXCEPT !.status = "partial_success"]]
         ELSE [res |-> Ok, response |-> [resp EXCEPT !.status = "partial_success"]]
    ELSE [res |-> Ok, response |-> resp]

\* A loop that gives up at the first failed item.
LoopStopsAtError(resp, i, n) == i < n /\ resp.errors = <<>>

\* collector.rs:25: the for loop goes on while items are left.
LoopContinues(resp, i, n) == i < n

\* process_metric returned r for the current item: account for it and go on.
ItemDone(p, r) ==
    /\ results' = [results EXCEPT ![p] = Append(@, r)]
    /\ response' = [response EXCEPT ![p] = Account(@, r)]
    /\ pc' = [pc EXCEPT ![p] = "loop"]
    /\ phase' = [phase EXCEPT ![p] = "none"]
    /\ UNCHANGED ret

\* The running call returns r to its caller.
CallDone(p, r) ==
    /\ ret' = [ret EXCEPT ![p] = r]
    /\ pc' = [pc EXCEPT ![p] = "done"]
    /\ phase' = [phase EXCEPT ![p] = "none"]
    /\ UNCHANGED <<results, response>>

\* update_metric returned r: to the caller, or into process_metric's match
\* (collector.rs:51-65).
UpdateReturns(p, r) ==
    CASE phase[p] = "direct" -> CallDone(p, r)
      [] phase[p] = "u1" /\ r.ok -> ItemDone(p, r)
      [] phase[p] = "u1" /\ ~r.ok ->
            /\ pc' = [pc EXCEPT ![p] = "reg_map"]
            /\ phase' = [phase EXCEPT ![p] = "reg"]
            /\ UNCHANGED <<results, response, ret>>
      [] phase[p] = "u2" -> ItemDone(p, r)

\* register_metric returned r: to the caller, or into process_metric
\* (collector.rs:59-61).
RegisterReturns(p, r) ==
    /\ registered' = IF r.ok THEN registered \cup {full_name(cur[p].name)}
                              ELSE registered
    /\ CASE phase[p] = "direct" -> CallDone(p, r)
         [] phase[p] = "reg" /\ r.ok ->
               /\ pc' = [pc EXCEPT ![p] = "upd_lk"]
               /\ phase' = [phase EXCEPT ![p] = "u2"]
               /\ UNCHANGED <<results, response, ret>>
         [] phase[p] = "reg" /\ ~r.ok -> ItemDone(p, r)

\* with_label_values panicked: the call unwinds, dropping its lock guards.
Panics(p) ==
    /\ ret' = [ret EXCEPT ![p] = Panic]
    /\ pc' = [pc EXCEPT ![p] = "done"]
    /\ phase' = [phase EXCEPT ![p] = "none"]
    /\ UNCHANGED <<results, response>>

\* collector.rs:25: the for loop takes the next item and calls process_metric,
\* which calls update_metric first.
LoopNext(p) ==
    /\ pc[p] = "loop"
    /\ LoopContinues(response[p], idx[p], Len(batch[p].metrics))
    /\ cur' = [cur EXCEPT ![p] = batch[p].metrics[idx[p] + 1]]
    /\ idx' = [idx EXCEPT ![p] = @ + 1]
    /\ trace' = [trace EXCEPT ![p] = <<>>]
    /\ snap' = [snap EXCEPT ![p] = Contents]
    /\ phase' = [phase EXCEPT ![p] = "u1"]
    /\ pc' = [pc EXCEPT ![p] = "upd_lk"]
    /\ UNCHANGED <<regvars, lk_readers, op, lv, batch, response, results, ret, prev,
                   registered, ncalls, count>>

\* collector.rs:37-47: the loop is over, process_batch returns.
LoopEnd(p) ==
    /\ pc[p] = "loop"
    /\ ~LoopContinues(response[p], idx[p], Len(batch[p].metrics))
    /\ LET f == Finish(response[p])
       IN /\ response' = [response EXCEPT ![p] = f.response]
          /\ ret' = [ret EXCEPT ![p] = f.res]
    /\ pc' = [pc EXCEPT ![p] = "done"]
    /\ UNCHANGED <<regvars, lk_readers, op, phase, cur, lv, batch, idx, results, trace,
                   snap, prev, registered, ncalls, count>>

---------------------------------------------------------------------------
(* update_metric and register_metric, one step per lock acquisition *)

\* registry.rs:70-83: take the label_keys read lock and look the schema up; an
\* unknown name returns the error (the guard is dropped), otherwise the label
\* values are laid out in schema order and the read lock stays held.
UpdateLookup(p) ==
    /\ pc[p] = "upd_lk"
    /\ trace' = [trace EXCEPT ![p] = Append(@, "update_metric")]
    /\ LET name == full_name(cur[p].name)
       IN IF name \notin DOMAIN label_keys
          THEN /\ UpdateReturns(p, NotRegistered(name))
               /\ UNCHANGED <<lk_readers, lv>>
          ELSE /\ lk_readers' = lk_readers \cup {p}
               /\ lv' = [lv EXCEPT ![p] = LabelValues(label_keys[name], cur[p])]
               /\ pc' = [pc EXCEPT ![p] = "upd_map"]
               /\ UNCHANGED <<phase, results, response, ret>>
    /\ UNCHANGED <<regvars, op, cur, batch, idx, snap, prev, registered, ncalls, count>>

\* An update_metric that keeps its label_keys read guard when it returns.
KeepReadGuard(readers, p) == readers

\* registry.rs:129-130: update_metric returns (or unwinds) and its label_keys
\* read guard goes out of scope.
DropReadGuard(readers, p) == readers \ {p}

\* registry.rs:85-129: under the instrument map's read lock, fold the value into
\* the instrument of the measurement's type, or report that the map has none.
UpdateApply(p) ==
    /\ pc[p] = "upd_map"
    /\ lk_readers' = DropReadGuard(lk_readers, p)
    /\ LET name == full_name(cur[p].name)
           m == cur[p]
       IN CASE m.metric_type = "counter" ->
                 IF name \in DOMAIN counters
                 THEN IF WithLabelValuesPanics(counters[name], lv[p])
                      THEN Panics(p) /\ UNCHANGED regvars
                      ELSE \/ /\ IncByAsserts(m.value)
                              /\ Panics(p)
                              /\ UNCHANGED regvars
                           \/ /\ counters' = [counters EXCEPT
                                                ![name] = IncBy(@, lv[p], m.value)]
                              /\ UpdateReturns(p, Ok)
                              /\ UNCHANGED <<gauges, histograms, label_keys, registry>>
                 ELSE /\ UpdateReturns(p, InstrumentMissing("counter", name))
                      /\ UNCHANGED regvars
            [] m.metric_type = "gauge" ->
                 IF name \in DOMAIN gauges
                 THEN IF WithLabelValuesPanics(gauges[name], lv[p])
                      THEN Panics(p) /\ UNCHANGED regvars
                      ELSE /\ gauges' = [gauges EXCEPT
                                           ![name] = GaugeSet(@, lv[p], m.value)]
                           /\ UpdateReturns(p, Ok)
                           /\ UNCHANGED <<counters, histograms, label_keys, registry>>
                 ELSE /\ UpdateReturns(p, InstrumentMissing("gauge", name))
                      /\ UNCHANGED regvars
            [] m.metric_type = "histogram" ->
                 IF name \in DOMAIN histograms
                 THEN IF WithLabelValuesPanics(histograms[name], lv[p])
                      THEN Panics(p) /\ UNCHANGED regvars
                      ELSE /\ histograms' = [histograms EXCEPT
                                               ![name] = Observe(@, lv[p], m.value)]
                           /\ UpdateReturns(p, Ok)
                           /\ UNCHANGED <<counters, gauges, label_keys, registry>>
                 ELSE /\ UpdateReturns(p, InstrumentMissing("histogram", name))
                      /\ UNCHANGED regvars
            [] m.metric_type = "summary" ->
                 /\ UpdateReturns(p, SummaryNotSupported("MetricsProcessingError"))
                 /\ UNCHANGED regvars
    /\ UNCHANGED <<op, cur, lv, batch, idx, trace, snap, prev, registered, ncalls, count>>

\* registry.rs:33-61: compute the sorted label keys and run register_counter /
\* register_gauge / register_histogram under that map's write lock; an error
\* (or the summary type) returns before label_keys is touched.
RegisterInstrument(p) ==
    /\ pc[p] = "reg_map"
    /\ trace' = [trace EXCEPT ![p] = Append(@, "register_metric")]
    /\ LET name == full_name(cur[p].name)
           m == cur[p]
           keys == SortedLabelKeys(m)
       IN CASE m.metric_type = "counter" ->
                 LET r == register_counter(counters, registry, name, m.help, keys)
                 IN /\ counters' = r.map
                    /\ registry' = r.reg
                    /\ IF r.res.ok THEN /\ pc' = [pc EXCEPT ![p] = "reg_lk"]
                                        /\ UNCHANGED <<phase, results, response, ret,
                                                       registered>>
                       ELSE RegisterReturns(p, r.res)
                    /\ UNCHANGED <<gauges, histograms>>
            [] m.metric_type = "gauge" ->
                 LET r == register_gauge(gauges, registry, name, m.help, keys)
                 IN /\ gauges' = r.map
                    /\ registry' = r.reg
                    /\ IF r.res.ok THEN /\ pc' = [pc EXCEPT ![p] = "reg_lk"]
                                        /\ UNCHANGED <<phase, results, response, ret,
                                                       registered>>
                       ELSE RegisterReturns(p, r.res)
                    /\ UNCHANGED <<counters, histograms>>
            [] m.metric_type = "histogram" ->
                 LET r == register_histogram(histograms, registry, name, m.help, keys)
                 IN /\ histograms' = r.map
                    /\ registry' = r.reg
                    /\ IF r.res.ok THEN /\ pc' = [pc EXCEPT ![p] = "reg_lk"]
                                        /\ UNCHANGED <<phase, results, response, ret,
                                                       registered>>
                       ELSE RegisterReturns(p, r.res)
                    /\ UNCHANGED <<counters, gauges>>
            [] m.metric_type = "summary" ->
                 /\ RegisterReturns(p, SummaryNotSupported("MetricRegistrationError"))
                 /\ UNCHANGED <<counters, gauges, histograms, registry>>
    /\ UNCHANGED <<label_keys, lk_readers, op, cur, lv, batch, idx, snap, prev, ncalls, count>>

\* registry.rs:63-66: take the label_keys write lock (no reader may hold it) and
\* record the measurement's sorted label keys under the name.
RecordLabelKeys(p) ==
    /\ pc[p] = "reg_lk"
    /\ lk_readers = {}
    /\ label_keys' = Put(label_keys, full_name(cur[p].name), SortedLabelKeys(cur[p]))
    /\ RegisterReturns(p, Ok)
    /\ UNCHANGED <<counters, gauges, histograms, registry, lk_readers, op, cur, lv,
                   batch, idx, trace, snap, prev, ncalls, count>>

\* A caller invokes MetricsRegistry::get_metrics_count() (registry.rs:149-155).
CallGetMetricsCount(p, max) ==
    /\ Free(p)
    /\ ncalls < max
    /\ StartCall(p, "get_metrics_count", NoMetric, NoBatch, "cnt_c", "direct")
    /\ UNCHANGED <<regvars, lk_readers, ret, registered>>

\* What a step of get_metrics_count leaves alone.
CountFrame ==
    UNCHANGED <<regvars, lk_readers, op, phase, cur, lv, batch, idx, response, results,
                trace, snap, prev, registered, ncalls>>

\* registry.rs:150: the size of counters, read under its read lock, which is
\* released at the end of the statement.
CountCounters(p) ==
    /\ pc[p] = "cnt_c"
    /\ count' = [count EXCEPT ![p] = Cardinality(DOMAIN counters)]
    /\ pc' = [pc EXCEPT ![p] = "cnt_g"]
    /\ UNCHANGED ret
    /\ CountFrame

\* registry.rs:151: the size of gauges, read under its read lock.
CountGauges(p) ==
    /\ pc[p] = "cnt_g"
    /\ count' = [count EXCEPT ![p] = @ + Cardinality(DOMAIN gauges)]
    /\ pc' = [pc EXCEPT ![p] = "cnt_h"]
    /\ UNCHANGED ret
    /\ CountFrame

\* registry.rs:152-154: the size of histograms, read under its read lock, and
\* the return of Ok(sum); the sum is what count holds from then on.
CountHistograms(p) ==
    /\ pc[p] = "cnt_h"
    /\ count' = [count EXCEPT ![p] = @ + Cardinality(DOMAIN histograms)]
    /\ pc' = [pc EXCEPT ![p] = "done"]
    /\ ret' = [ret EXCEPT ![p] = Ok]
    /\ CountFrame

---------------------------------------------------------------------------
(* Inputs *)

x == <<"x">>
y == <<"y">>
z == <<"z">>
ka == <<"a">>
kb == <<"b">>
kle == <<"l", "e">>
u == <<"u">>
w == <<"w">>

Labels1(k, v) == [q \in {k} |-> v]

\* Measurements handed to register_metric / update_metric directly.
Metrics ==
    {Metric(x, t, "h", l, v) :
        t \in {"counter", "gauge"},
        l \in {NoLabels, Labels1(ka, u), Labels1(ka, w), Labels1(kb, u)},
        v \in {1, 2}}
    \cup {Metric(x, "histogram", "h", Labels1(ka, u), 1),
          Metric(x, "histogram", "h", NoLabels, 2),
          Metric(x, "summary", "h", Labels1(ka, u), 1),
          Metric(x, "counter", "h", Labels1(ka, u), -1),
          Metric(y, "counter", "h", NoLabels, 1),
          Metric(y, "gauge", "h", Labels1(ka, u), 2)}

\* Measurements of the registry calls that precede a collector call.
SetupMetrics ==
    {Metric(x, "counter", "h", Labels1(ka, u), 2),
     Metric(x, "gauge", "h", Labels1(ka, u), 1),
     Metric(y, "histogram", "h", NoLabels, 1),
     Metric(y, "summary", "h", NoLabels, 1)}

\* Measurements that batches are made of.
BatchMetrics ==
    {Metric(x, "counter", "h", Labels1(ka, u), 1),
     Metric(y, "gauge", "h", NoLabels, 2),
     Metric(z, "histogram", "h", Labels1(kb, u), 1),
     Metric(x, "gauge", "h", Labels1(ka, u), 2),
     Metric(y, "summary", "h", NoLabels, 1)}

\* A measurement with the reserved label key le.
ReservedKeyMetric == Metric(z, "counter", "h", Labels1(kle, u), 1)

SeqsUpTo(S, n) == UNION {[1..k -> S] : k \in 0..n}

\* Batches handed to process_batch directly.
Batches == {MetricsBatch(ms, "app") : ms \in SeqsUpTo(BatchMetrics, MaxBatch)}

\* Request bodies posted to the ingest endpoint.
IngestBatches ==
    {MetricsBatch(ms, src) :
        ms \in SeqsUpTo(BatchMetrics \cup {ReservedKeyMetric}, MaxBatch),
        src \in {"app", ""}}

\* Measurements of the concurrent workers' batches: first observations of one
\* name with equal and with different label keys and types.
ConcMetrics ==
    {Metric(x, "counter", "h", Labels1(ka, u), 1),
     Metric(x, "counter", "h", Labels1(ka, u), 2),
     Metric(x, "counter", "h", Labels1(kb, u), 2),
     Metric(x, "counter", "h", NoLabels, 1),
     Metric(x, "gauge", "h", Labels1(ka, u), 2)}

\* Measurements of the concurrent callers of the registry: one name, as a
\* counter and as a gauge.
LiveMetrics ==
    {Metric(x, "counter", "h", Labels1(ka, u), 1),
     Metric(x, "gauge", "h", Labels1(ka, u), 2)}

ConcBatches == {MetricsBatch(ms, "app") : ms \in SeqsUpTo(ConcMetrics, MaxConcBatch)}

\* Characters that names and label keys handed to validation are made of: an
\* ASCII letter of each case, a digit, the two separators, a space, a
\* punctuation mark and a letter outside ASCII.
NameChars == {"a", "Z", "1", "_", ":", " ", "-", "é"}

Names == SeqsUpTo(NameChars, MaxNameLen)

kquantile == <<"q", "u", "a", "n", "t", "i", "l", "e">>

\* Measurements handed to Metric::validate: every name without labels, every
\* key under a plain name, and an empty help text.
ValidateMetrics ==
    {Metric(n, "counter", "h", NoLabels, 1) : n \in Names}
    \cup {Metric(x, "gauge", "h", Labels1(k, u), 1) : k \in Names \cup {kle, kquantile}}
    \cup {Metric(x, "counter", "", NoLabels, 1)}

Labels2(k1, v1, k2, v2) == [q \in {k1, k2} |-> IF q = k1 THEN v1 ELSE v2]

\* A label value with a comma and an equals sign in it.
vpair == <<"1", ",", "b", "=", "2">>

\* Measurements that validated batches are made of: equal and different
\* names, label maps, types and values, three that fail on their own, and two
\* whose label values hold "1,b=2" under one key and "1", "2" under two.
ValBatchMetrics ==
    {Metric(x, "counter", "h", Labels1(ka, u), 1),
     Metric(x, "gauge", "h", Labels1(ka, u), 2),
     Metric(x, "counter", "h", Labels1(ka, w), 1),
     Metric(x, "counter", "h", NoLabels, 1),
     Metric(y, "counter", "h", Labels1(ka, u), 1),
     Metric(<<" ">>, "counter", "h", NoLabels, 1),
     Metric(y, "gauge", "", NoLabels, 1),
     ReservedKeyMetric,
     Metric(x, "counter", "h", Labels1(ka, vpair), 1),
     Metric(x, "counter", "h", Labels2(ka, <<"1">>, kb, <<"2">>), 1)}

ValidateBatches ==
    {MetricsBatch(ms, src) :
        ms \in SeqsUpTo(ValBatchMetrics, MaxValBatch),
        src \in {"app", ""}}

---------------------------------------------------------------------------
(* Specifications *)

RegistryStep(p) ==
    \/ UpdateLookup(p)
    \/ UpdateApply(p)
    \/ RegisterInstrument(p)
    \/ RecordLabelKeys(p)

CollectorStep(p) ==
    \/ LoopNext(p)
    \/ LoopEnd(p)

\* One caller of the registry: register_metric, update_metric and gather calls,
\* one after the other.
Next ==
    \/ CallRegisterMetric(1, Metrics, MaxCalls)
    \/ CallUpdateMetric(1, Metrics, MaxCalls)
    \/ CallGather(1, MaxCalls)
    \/ RegistryStep(1)

Spec == Init /\ [][Next]_vars

\* One caller of the collector: up to MaxSetup registry calls, then one
\* process_batch call or one ingest request.
NextBatch ==
    \/ CallRegisterMetric(1, SetupMetrics, MaxSetup)
    \/ CallUpdateMetric(1, SetupMetrics, MaxSetup)
    \/ CallProcessBatch(1, Batches)
    \/ CallIngestMetrics(1, IngestBatches)
    \/ CollectorStep(1)
    \/ RegistryStep(1)

SpecBatch == Init /\ [][NextBatch]_vars

\* Concurrent workers on one registry, each running one process_batch call.
NextConc ==
    \E p \in Procs :
        \/ CallProcessBatch(p, ConcBatches)
        \/ CollectorStep(p)
        \/ RegistryStep(p)

SpecConc == Init /\ [][NextConc]_vars

CountStep(p) ==
    \/ CountCounters(p)
    \/ CountGauges(p)
    \/ CountHistograms(p)

\* Concurrent callers of the registry: register_metric, update_metric,
\* get_metrics_count and gather calls, MaxLiveCalls in total.
NextLive ==
    \E p \in Procs :
        \/ CallRegisterMetric(p, LiveMetrics, MaxLiveCalls)
        \/ CallUpdateMetric(p, LiveMetrics, MaxLiveCalls)
        \/ CallGetMetricsCount(p, MaxLiveCalls)
        \/ CallGather(p, MaxLiveCalls)
        \/ RegistryStep(p)
        \/ CountStep(p)

\* The runtime polls every task that can make progress: a call that has
\* started keeps taking its steps whenever they are possible.  Starting a call
\* is up to the caller and carries no fairness.  Every step of a call moves
\* the worker's position, which is why pc is the subscript.
FairLive == \A p \in Procs : WF_pc(RegistryStep(p) \/ CountStep(p))

SpecLive == Init /\ [][NextLive]_vars /\ FairLive

\* The validation functions applied to measurements and batches drawn from
\* bounded sets.
NextValidate ==
    \/ CallValidateMetric(1, ValidateMetrics)
    \/ CallValidateBatch(1, ValidateBatches)

SpecValidate == Init /\ [][NextValidate]_vars

---------------------------------------------------------------------------
(* Properties *)

\* The call of worker p has returned to its caller (it did not unwind).
Returned(p) == pc[p] = "done" /\ ret[p] # Panic

\* The type of the instrument that contents c holds under a name.
TypeOf(c, name) ==
    IF name \in DOMAIN c.counters THEN "counter"
    ELSE IF name \in DOMAIN c.gauges THEN "gauge"
    ELSE IF name \in DOMAIN c.histograms THEN "histogram"
    ELSE "none"

\* The number of instruments held under a name, over the three maps.
InstrumentsFor(name) ==
    Cardinality({k \in {"counter", "gauge", "histogram"} :
                    \/ k = "counter" /\ name \in DOMAIN counters
                    \/ k = "gauge" /\ name \in DOMAIN gauges
                    \/ k = "histogram" /\ name \in DOMAIN histograms})

\* C1: the label-key schema recorded for a name never changes: no step of a
\* register_metric or update_metric call replaces a recorded key list with a
\* different one (or removes it).
C1_SchemaNeverChanges ==
    [][\A n \in DOMAIN label_keys :
          n \in DOMAIN label_keys' /\ label_keys'[n] = label_keys[n]]_vars

\* C2: when concurrent process_batch calls each carry a first observation of
\* the same unseen name, no interleaving ever holds more than one instrument
\* for the name, and once all calls are over get_metrics_count has gone from 0
\* to exactly 1.
C2_OneInstrumentPerName ==
    /\ \A n \in registry \cup DOMAIN label_keys : InstrumentsFor(n) = 1
    /\ MetricsCount = Cardinality(registry)
    /\ MetricsCount <= 1
    /\ ((\A p \in Procs : pc[p] = "done" /\ batch[p].metrics # <<>>)
           => /\ MetricsCount = 1
              /\ InstrumentsFor(full_name(x)) = 1)

\* Both workers raced on the first observation of x, with different types, and
\* both calls are over.
C2_Witness ==
    /\ \A p \in Procs : pc[p] = "done" /\ batch[p].metrics # <<>>
    /\ batch[1].metrics[1].metric_type # batch[2].metrics[1].metric_type
    /\ snap[1].registry = {} /\ snap[2].registry = {}
    /\ MetricsCount = 1

InProcessBatch(p) ==
    \/ op[p] = "process_batch"
    \/ op[p] = "ingest_metrics" /\ ValidateBatch(batch[p]).ok

\* process_metric has returned for item idx[p] of worker p's batch.
ItemFinished(p) == InProcessBatch(p) /\ pc[p] = "loop" /\ idx[p] > 0

\* process_batch has returned to its caller, every item accounted for.
BatchReturned(p) == InProcessBatch(p) /\ Returned(p)

SupportedTypes == {"counter", "gauge", "histogram"}

NumOk(rs) == Cardinality({i \in 1..Len(rs) : rs[i].ok})

NumFailed(rs) == Cardinality({i \in 1..Len(rs) : ~rs[i].ok})

RECURSIVE FailureStrings(_)
\* The messages of the failed results, in order.
FailureStrings(rs) ==
    IF rs = <<>> THEN <<>>
    ELSE IF Head(rs).ok THEN FailureStrings(Tail(rs))
    ELSE <<to_string(Head(rs))>> \o FailureStrings(Tail(rs))

\* C3: a batch item that names an existing instrument with a different type is
\* answered with an error for that item, the registry's contents (instruments,
\* their types and values, schemas) stay as they were, and no name ever has
\* more than one instrument.
C3_TypeIsFixed ==
    /\ \A n \in registry : InstrumentsFor(n) = 1
    /\ (/\ ItemFinished(1)
        /\ TypeOf(snap[1], full_name(cur[1].name)) \notin {"none", cur[1].metric_type})
       => /\ ~results[1][idx[1]].ok
          /\ response[1].errors # <<>>
          /\ response[1].errors[Len(response[1].errors)] = to_string(results[1][idx[1]])
          /\ Contents = snap[1]

\* A gauge item for a name that holds a counter with a value has been answered.
C3_Witness ==
    /\ ItemFinished(1)
    /\ cur[1].metric_type = "gauge"
    /\ TypeOf(snap[1], full_name(cur[1].name)) = "counter"
    /\ \E lvs \in DOMAIN counters[full_name(cur[1].name)].children :
          counters[full_name(cur[1].name)].children[lvs] > 0
    /\ ~results[1][idx[1]].ok

\* What the registry holds after the first observation m of an unseen name is
\* folded into contents c: one new instrument with m's sorted label keys and one
\* child, holding m's value once.
AfterFirstObservation(c, m) ==
    LET name == full_name(m.name)
        keys == SortedLabelKeys(m)
        first == CASE m.metric_type = "counter" -> m.value
                   [] m.metric_type = "gauge" -> m.value
                   [] OTHER -> [sample_count |-> 1, sample_sum |-> m.value]
        vec == [label_names |-> keys, help |-> m.help,
                children |-> [lvs \in {LabelValues(keys, m)} |-> first]]
    IN [counters |-> IF m.metric_type = "counter"
                     THEN Put(c.counters, name, vec) ELSE c.counters,
        gauges |-> IF m.metric_type = "gauge"
                   THEN Put(c.gauges, name, vec) ELSE c.gauges,
        histograms |-> IF m.metric_type = "histogram"
                       THEN Put(c.histograms, name, vec) ELSE c.histograms,
        label_keys |-> Put(c.label_keys, name, keys),
        registry |-> c.registry \cup {name}]

\* The item worker p is on is a first observation: a supported type under a name
\* the registry had never seen when the item began.
FirstObservation(p) ==
    /\ InProcessBatch(p)
    /\ idx[p] > 0
    /\ cur[p].metric_type \in SupportedTypes
    /\ full_name(cur[p].name) \notin snap[p].registry
    /\ full_name(cur[p].name) \notin DOMAIN snap[p].label_keys

\* C4: for a first observation process_metric calls update_metric (which fails
\* and changes nothing), then register_metric, then update_metric once more;
\* afterwards the item is counted as processed and the registry is what it was
\* plus the new instrument holding the value once.
C4_FirstObservation ==
    /\ (FirstObservation(1) /\ pc[1] = "reg_map")
          => /\ trace[1] = <<"update_metric">>
             /\ Contents = snap[1]
    /\ (FirstObservation(1) /\ pc[1] = "loop")
          => /\ trace[1] = <<"update_metric", "register_metric", "update_metric">>
             /\ results[1][idx[1]] = Ok
             /\ response[1].processed = NumOk(results[1])
             /\ Contents = AfterFirstObservation(snap[1], cur[1])

\* The first observation of counter x, value 1, has been processed and the
\* counter reads 1.
C4_Witness ==
    /\ FirstObservation(1) /\ pc[1] = "loop"
    /\ cur[1] = Metric(x, "counter", "h", Labels1(ka, u), 1)
    /\ counters[full_name(x)].children[<<u>>] = 1
    /\ response[1].processed >= 1

\* C5: a failing item does not abort process_batch: the items are taken in
\* input order, each is answered before the call returns, and an item that
\* fails leaves the registry as it found it, so that the items after it are
\* folded in as if it had not been in the batch.
C5_FailureIsolation ==
    /\ (InProcessBatch(1) /\ idx[1] > 0)
          => /\ cur[1] = batch[1].metrics[idx[1]]
             /\ Len(results[1]) \in {idx[1] - 1, idx[1]}
    /\ (ItemFinished(1) /\ ~results[1][idx[1]].ok) => Contents = snap[1]
    /\ BatchReturned(1) => Len(results[1]) = Len(batch[1].metrics)

\* process_batch has returned for a batch whose first item failed and whose
\* second item was folded in.
C5_Witness ==
    /\ BatchReturned(1)
    /\ Len(results[1]) >= 2
    /\ ~results[1][1].ok
    /\ results[1][2].ok
    /\ full_name(batch[1].metrics[2].name) \in registry

\* C6: when every item of a non-empty batch has failed, process_batch returns
\* the batch-level error, never an Ok response.
C6_AllFailed ==
    (/\ BatchReturned(1)
     /\ batch[1].metrics # <<>>
     /\ NumFailed(results[1]) = Len(batch[1].metrics))
    => /\ ~ret[1].ok
       /\ ret[1] = Err("MetricsProcessingError",
                       "Failed to process any metrics in the batch", <<>>)

\* process_batch has returned for a batch of summary measurements only.
C6_Witness ==
    /\ BatchReturned(1)
    /\ Len(batch[1].metrics) >= 2
    /\ \A i \in 1..Len(batch[1].metrics) : batch[1].metrics[i].metric_type = "summary"
    /\ NumFailed(results[1]) = Len(batch[1].metrics)
    /\ ~ret[1].ok

\* C7: when some but not all items of a batch have failed, process_batch
\* returns Ok with status "partial_success", processed equal to the number of
\* items that succeeded, and the failed items' messages, one each, in order.
C7_PartialSuccess ==
    (/\ BatchReturned(1)
     /\ NumFailed(results[1]) > 0
     /\ NumOk(results[1]) > 0)
    => /\ ret[1] = Ok
       /\ response[1].status = "partial_success"
       /\ response[1].processed = NumOk(results[1])
       /\ Len(response[1].errors) = NumFailed(results[1])
       /\ response[1].errors = FailureStrings(results[1])

\* process_batch has returned for a batch of three with one failed item between
\* two that succeeded.
C7_Witness ==
    /\ BatchReturned(1)
    /\ Len(batch[1].metrics) = 3
    /\ results[1][1].ok /\ ~results[1][2].ok /\ results[1][3].ok
    /\ response[1].processed = 2
    /\ Len(response[1].errors) = 1

\* C8: when every item of a batch has succeeded, process_batch returns Ok with
\* processed equal to the batch size, status "success" and no errors.
C8_AllSucceeded ==
    (/\ BatchReturned(1)
     /\ NumOk(results[1]) = Len(batch[1].metrics))
    => /\ ret[1] = Ok
       /\ response[1].processed = Len(batch[1].metrics)
       /\ response[1].status = "success"
       /\ response[1].errors = <<>>

\* process_batch has returned for a counter, a gauge and a histogram, all of
\* names unseen before, on an empty registry.
C8_Witness ==
    /\ BatchReturned(1)
    /\ ncalls = 1
    /\ Len(batch[1].metrics) = 3
    /\ batch[1].metrics[1].metric_type = "counter"
    /\ batch[1].metrics[2].metric_type = "gauge"
    /\ batch[1].metrics[3].metric_type = "histogram"
    /\ NumOk(results[1]) = 3
    /\ MetricsCount = 3
    /\ response[1].processed = 3

\* An ingest request has been answered whose batch of three has exactly one
\* measurement with the reserved label key le, the other two being valid.
ReservedKeyCase(p) ==
    /\ pc[p] = "done"
    /\ op[p] = "ingest_metrics"
    /\ batch[p].source # ""
    /\ Len(batch[p].metrics) = 3
    /\ Cardinality({i \in 1..3 : kle \in DOMAIN batch[p].metrics[i].labels}) = 1
    /\ \A i \in 1..3 : \/ kle \in DOMAIN batch[p].metrics[i].labels
                       \/ ValidateMetric(batch[p].metrics[i]).ok

\* C9, as the claim states it: such a request is answered with processed = 2,
\* status "partial_success" and exactly one error.
C9_AsClaimed ==
    ReservedKeyCase(1)
    => /\ ret[1].ok
       /\ response[1].processed = 2
       /\ response[1].status = "partial_success"
       /\ Len(response[1].errors) = 1

\* C9, as the code has it: such a request is rejected as a whole with the
\* validation error for the reserved key; no item reaches the collector and
\* the registry is left as it was.
C9_BatchRejected ==
    ReservedKeyCase(1)
    => /\ ret[1] = ValidationError("'{}' is a reserved label name", kle)
       /\ results[1] = <<>>
       /\ trace[1] = <<>>
       /\ response[1].processed = 0
       /\ Contents = snap[1]

\* Such a request, with the reserved key on its last measurement and two
\* distinct valid measurements before it, has been answered.
C9_Witness ==
    /\ ReservedKeyCase(1)
    /\ batch[1].metrics[3] = ReservedKeyMetric
    /\ batch[1].metrics[1].name # batch[1].metrics[2].name
    /\ batch[1].metrics[1].metric_type = "counter"
    /\ batch[1].metrics[2].metric_type = "gauge"
    /\ ~ret[1].ok

\* C11: update_metric for a name for which no register_metric call has
\* returned Ok fails with the not-registered error, whatever the measurement's
\* type, and leaves the registry's contents as they were.
C11_UpdateUnregistered ==
    (/\ pc[1] = "done"
     /\ op[1] = "update_metric"
     /\ full_name(cur[1].name) \notin registered)
    => /\ ret[1] = Err("MetricsProcessingError", "Metric '{}' not registered",
                       full_name(cur[1].name))
       /\ Contents = snap[1]

\* A summary update of a name never registered has failed, on a registry that
\* holds another name.
C11_Witness ==
    /\ pc[1] = "done"
    /\ op[1] = "update_metric"
    /\ full_name(cur[1].name) \notin registered
    /\ cur[1].metric_type = "summary"
    /\ registered # {}
    /\ ~ret[1].ok

\* The call worker p has finished is an update_metric that directly follows a
\* register_metric which returned Ok for the same name, type and labels, of a
\* supported type and with a value that a counter accepts.
UpdateAfterRegister(p) ==
    /\ pc[p] = "done"
    /\ op[p] = "update_metric"
    /\ prev[p].op = "register_metric"
    /\ prev[p].ret = Ok
    /\ prev[p].metric.name = cur[p].name
    /\ prev[p].metric.metric_type = cur[p].metric_type
    /\ prev[p].metric.labels = cur[p].labels
    /\ cur[p].metric_type \in SupportedTypes
    /\ cur[p].value >= 0

\* C12: for every supported type, update_metric right after a successful
\* register_metric with the same name, type and labels returns Ok, and the text
\* that gather() returns next has the qualified name in it.
C12_RegisterThenUpdate ==
    UpdateAfterRegister(1)
    => /\ ret[1] = Ok
       /\ \E i \in 1..Len(Gather(Contents).arg) :
             Gather(Contents).arg[i].name = full_name(cur[1].name)

\* get_metrics_count on contents c.
CountOf(c) == Cardinality(DOMAIN c.counters) + Cardinality(DOMAIN c.gauges)
              + Cardinality(DOMAIN c.histograms)

\* The call worker p has finished is a register_metric for a name that held an
\* instrument of the same type when the call began.
Reregistered(p) ==
    /\ pc[p] = "done"
    /\ op[p] = "register_metric"
    /\ cur[p].metric_type \in SupportedTypes
    /\ full_name(cur[p].name) \in DOMAIN snap[p].label_keys
    /\ TypeOf(snap[p], full_name(cur[p].name)) = cur[p].metric_type

\* C13: register_metric for an identity already registered with the same type
\* returns Ok and leaves the three instrument maps (the instruments, their
\* series and values), the set of registered collectors and get_metrics_count
\* as they were.
C13_RegisterIdempotent ==
    Reregistered(1)
    => /\ ret[1] = Ok
       /\ counters = snap[1].counters
       /\ gauges = snap[1].gauges
       /\ histograms = snap[1].histograms
       /\ registry = snap[1].registry
       /\ InstrumentsFor(full_name(cur[1].name)) = 1
       /\ MetricsCount = CountOf(snap[1])

\* A name whose instrument holds a series has been registered again, with other
\* label keys than the instrument's.
C13_Witness ==
    /\ Reregistered(1)
    /\ DOMAIN VecOf(Contents, full_name(cur[1].name)).children # {}
    /\ SortedLabelKeys(cur[1]) # VecOf(Contents, full_name(cur[1].name)).label_names
    /\ ret[1] = Ok

\* The series that a measurement m addresses in contents c under the recorded
\* schema of its name: its value in a one-element sequence, or the empty
\* sequence when the series does not exist.
SeriesOf(c, m) ==
    LET name == full_name(m.name)
        lvs == LabelValues(c.label_keys[name], m)
    IN IF lvs \in DOMAIN VecOf(c, name).children
       THEN <<VecOf(c, name).children[lvs]>>
       ELSE <<>>

\* Measurement m2 has the name, type and label keys of m, and other label values.
SameKeysOtherValues(m, m2) ==
    /\ m2.name = m.name
    /\ m2.metric_type = m.metric_type
    /\ DOMAIN m2.labels = DOMAIN m.labels
    /\ m2.labels # m.labels

C15_CountOfRegistered ==
    /\ [](/\ pc[1] \in {"idle", "done"} => MetricsCount = Cardinality(registered)
          /\ (pc[1] = "done" /\ op[1] = "update_metric")
                => MetricsCount = CountOf(snap[1]))
    /\ [][/\ MetricsCount' >= MetricsCount
          /\ pc[1] \in {"upd_lk", "upd_map"} => MetricsCount' = MetricsCount]_vars

\* Two names are registered and an update_metric call has failed after that.
C15_Witness ==
    /\ pc[1] = "done" /\ op[1] = "update_metric" /\ ~ret[1].ok
    /\ Cardinality(registered) = 2
    /\ MetricsCount = 2

\* C16: the value of a counter series never goes down: no step taken for a
\* measurement that passes validation leaves a counter series lower than it
\* was (a series that did not exist counts as 0).
C16_CounterMonotonic ==
    [][ValidateMetric(cur[1]).ok
       => \A n \in DOMAIN counters' :
             \A lvs \in DOMAIN counters'[n].children :
                counters'[n].children[lvs]
                   >= (IF n \in DOMAIN counters THEN Child(counters[n], lvs, 0) ELSE 0)]_vars

\* C17: update_metric for a registered name and its instrument's type lays the
\* measurement's labels out by the recorded schema: one value per schema key, in
\* schema order, the label's value for a key the measurement has and the empty
\* string for a key it lacks, labels with other keys being left out; and the
\* update returns Ok, the series of that value vector being there afterwards.
C17_LabelsOntoSchema ==
    (/\ pc[1] = "done"
     /\ op[1] = "update_metric"
     /\ full_name(cur[1].name) \in DOMAIN snap[1].label_keys
     /\ TypeOf(snap[1], full_name(cur[1].name)) = cur[1].metric_type
     /\ cur[1].value >= 0)
    => LET schema == snap[1].label_keys[full_name(cur[1].name)]
       IN /\ Len(lv[1]) = Len(schema)
          /\ \A i \in 1..Len(schema) :
                lv[1][i] = IF schema[i] \in DOMAIN cur[1].labels
                           THEN cur[1].labels[schema[i]]
                           ELSE <<>>
          /\ \A i, j \in 1..Len(schema) : i < j => StrLess(schema[i], schema[j])
          /\ ret[1] = Ok
          /\ lv[1] \in DOMAIN VecOf(Contents, full_name(cur[1].name)).children

\* C18: a summary measurement is always refused: a register_metric or
\* update_metric call for it returns an error and leaves the registry as it
\* was; as a batch item it makes process_metric call update_metric and
\* register_metric, both of which fail, creates nothing, and puts exactly one
\* entry, its own, into errors.
C18_SummaryRejected ==
    /\ (/\ pc[1] = "done"
        /\ op[1] \in {"register_metric", "update_metric"}
        /\ cur[1].metric_type = "summary")
       => /\ ~ret[1].ok
          /\ ret[1] # Panic
          /\ Contents = snap[1]
    /\ (ItemFinished(1) /\ cur[1].metric_type = "summary")
       => /\ trace[1] = <<"update_metric", "register_metric">>
          /\ results[1][idx[1]] = SummaryNotSupported("MetricRegistrationError")
          /\ response[1].errors[Len(response[1].errors)] = to_string(results[1][idx[1]])
          /\ Contents = snap[1]
    /\ InProcessBatch(1)
       => /\ \A i \in 1..Len(results[1]) :
                batch[1].metrics[i].metric_type = "summary" => ~results[1][i].ok
          /\ Len(response[1].errors) = NumFailed(results[1])

\* A summary item for a name that holds a gauge has been answered, after an item
\* that succeeded.
C18_Witness ==
    /\ ItemFinished(1)
    /\ cur[1].metric_type = "summary"
    /\ TypeOf(snap[1], full_name(cur[1].name)) = "gauge"
    /\ response[1].processed >= 1
    /\ Len(response[1].errors) = 1

RECURSIVE FailedIndices(_, _)
\* The positions from i on at which rs holds a failure, in ascending order.
FailedIndices(rs, i) ==
    IF i > Len(rs) THEN <<>>
    ELSE (IF rs[i].ok THEN <<>> ELSE <<i>>) \o FailedIndices(rs, i + 1)

\* C19: the errors list of process_batch is ordered like the input: its k-th
\* entry is the message of the k-th failing measurement of the batch, so the
\* error of a failing measurement stands before the errors of the failing
\* measurements that come after it.
C19_ErrorsInInputOrder ==
    InProcessBatch(1)
    => LET failed == FailedIndices(results[1], 1)
       IN /\ Len(results[1]) <= Len(batch[1].metrics)
          /\ Len(response[1].errors) = Len(failed)
          /\ \A k \in 1..Len(failed) :
                response[1].errors[k] = to_string(results[1][failed[k]])

\* process_batch has returned a response with the different errors of two
\* failing measurements.
C19_Witness ==
    /\ BatchReturned(1)
    /\ ret[1] = Ok
    /\ Len(batch[1].metrics) = 3
    /\ ~results[1][2].ok /\ ~results[1][3].ok
    /\ to_string(results[1][2]) # to_string(results[1][3])
    /\ response[1].errors = <<to_string(results[1][2]), to_string(results[1][3])>>

\* C20: gather() on a registry for which no name has been registered returns
\* Ok with a text that is not empty, the comment line saying that no metrics
\* were found; it returns no error and changes nothing.
C20_GatherEmptyRegistry ==
    (/\ pc[1] = "done"
     /\ op[1] = "gather"
     /\ registered = {}
     /\ CountOf(snap[1]) = 0)
    => /\ ret[1].ok
       /\ ret[1].arg # <<>>
       /\ ret[1].arg = <<[line |-> "#", name |-> <<>>,
                          text |-> "No metrics found in registry"]>>
       /\ Contents = snap[1]

\* gather() has returned on a registry that is still empty after a failed
\* update_metric call.
C20_Witness ==
    /\ pc[1] = "done"
    /\ op[1] = "gather"
    /\ registered = {}
    /\ CountOf(snap[1]) = 0
    /\ prev[1].op = "update_metric"
    /\ ~prev[1].ret.ok
    /\ ret[1].ok

\* The validation call of worker 1 was made on measurement m's kind of input and
\* has returned.
Validated(o) == pc[1] = "done" /\ op[1] = o

\* [A-Za-z0-9_:] and [A-Za-z0-9_], as far as the model's characters go.
NameCharset == AsciiLetters \cup AsciiDigits \cup {"_", ":"}
KeyCharset == AsciiLetters \cup AsciiDigits \cup {"_"}

\* C21: validation of one measurement accepts a name exactly when the name is
\* non-empty and made only of characters of [A-Za-z0-9_:]; a measurement with
\* any other name (help and labels being fine) is rejected with a
\* ValidationError.
C21_NameCharset ==
    (Validated("validate") /\ cur[1].help # "" /\ DOMAIN cur[1].labels = {})
    => /\ ret[1].ok <=> /\ cur[1].name # <<>>
                        /\ \A i \in 1..Len(cur[1].name) : cur[1].name[i] \in NameCharset
       /\ ~ret[1].ok => ret[1].variant = "ValidationError"

\* C22: validation of one measurement accepts a label key exactly when the key
\* is non-empty, starts with a character of [A-Za-z_], continues with
\* characters of [A-Za-z0-9_] and is neither le nor quantile (name and help
\* being fine).
C22_LabelKeyPattern ==
    (Validated("validate") /\ cur[1].help # "" /\ cur[1].name = x)
    => \A k \in DOMAIN cur[1].labels :
          ret[1].ok <=> /\ k # <<>>
                        /\ Head(k) \in KeyCharset \ AsciiDigits
                        /\ \A i \in 1..Len(k) : k[i] \in KeyCharset
                        /\ k # kle
                        /\ k # kquantile

\* Some measurement of batch b fails the validation of one measurement.
SomeItemInvalid(b) == \E i \in 1..Len(b.metrics) : ~ValidateMetric(b.metrics[i]).ok

\* C23: batch validation rejects with a ValidationError every batch whose source
\* is empty, whose list of measurements is empty, or in which some measurement
\* fails the validation of one measurement; the batch gets that one error as a
\* whole, which is the source's, the empty list's or a failing measurement's.
C23_InvalidBatchRejected ==
    (/\ Validated("validate_batch")
     /\ \/ batch[1].source = ""
        \/ batch[1].metrics = <<>>
        \/ SomeItemInvalid(batch[1]))
    => /\ ~ret[1].ok
       /\ ret[1].variant = "ValidationError"
       /\ \/ batch[1].source = "" /\ ret[1].msg = "Source cannot be empty"
          \/ batch[1].metrics = <<>> /\ ret[1].msg = "Batch must contain at least one metric"
          \/ \E i \in 1..Len(batch[1].metrics) : ret[1] = ValidateMetric(batch[1].metrics[i])

\* A batch with a source whose first measurement is fine and whose second one
\* has a name with a space in it was rejected with that measurement's error.
C23_Witness ==
    /\ Validated("validate_batch")
    /\ batch[1].source = "app"
    /\ Len(batch[1].metrics) = 2
    /\ ValidateMetric(batch[1].metrics[1]).ok
    /\ batch[1].metrics[2].name = <<" ">>
    /\ ~ret[1].ok
    /\ ret[1] = ValidateMetric(batch[1].metrics[2])

\* Measurements i and j of batch b have the same name and the same label map.
SameIdentity(b, i, j) ==
    /\ b.metrics[i].name = b.metrics[j].name
    /\ b.metrics[i].labels = b.metrics[j].labels

\* C24: batch validation rejects every batch in which two measurements have the
\* same name and the same label key/value map, whatever their types and values;
\* when nothing else is wrong with the batch the error is the duplicate error
\* naming such a measurement.
C24_DuplicateRejected ==
    (/\ Validated("validate_batch")
     /\ \E j \in 1..Len(batch[1].metrics) : \E i \in 1..(j-1) : SameIdentity(batch[1], i, j))
    => /\ ~ret[1].ok
       /\ ret[1].variant = "ValidationError"
       /\ (batch[1].source # "" /\ ~SomeItemInvalid(batch[1]))
          => /\ ret[1].msg = "Duplicate metric found: {} with the same set of labels"
             /\ \E j \in 1..Len(batch[1].metrics) : \E i \in 1..(j-1) :
                   SameIdentity(batch[1], i, j) /\ ret[1].arg = batch[1].metrics[j].name

\* A batch of two valid measurements with one name and label map, of different
\* types and values, was rejected as a duplicate.
C24_Witness ==
    /\ Validated("validate_batch")
    /\ batch[1].source = "app"
    /\ Len(batch[1].metrics) = 2
    /\ ~SomeItemInvalid(batch[1])
    /\ SameIdentity(batch[1], 1, 2)
    /\ batch[1].metrics[1].metric_type # batch[1].metrics[2].metric_type
    /\ batch[1].metrics[1].value # batch[1].metrics[2].value
    /\ ~ret[1].ok
    /\ ret[1].arg = x

\* The ingest request of worker p carries a batch that fails batch validation.
IngestRejects(p) == op[p] = "ingest_metrics" /\ ~ValidateBatch(batch[p]).ok

\* C25: validation never changes the registry: an ingest request whose batch
\* fails validation is answered with the validation error, process_batch is not
\* called for it (no measurement is looked at, no registry call is made), and
\* the registry's maps, schemas, series values and count are what they were
\* when the request arrived.
C25_RejectionLeavesRegistry ==
    IngestRejects(1)
    => /\ pc[1] = "done"
       /\ ret[1] = ValidateBatch(batch[1])
       /\ ret[1].variant = "ValidationError"
       /\ idx[1] = 0
       /\ results[1] = <<>>
       /\ trace[1] = <<>>
       /\ response[1] = DefaultResponse
       /\ Contents = snap[1]
       /\ MetricsCount = CountOf(snap[1])

\* A request arrived at a registry that holds one counter, with a source and
\* two valid measurements for that counter that are duplicates of each other;
\* it was rejected.
C25_Witness ==
    /\ IngestRejects(1)
    /\ pc[1] = "done"
    /\ batch[1].source # ""
    /\ Len(batch[1].metrics) = 2
    /\ ~SomeItemInvalid(batch[1])
    /\ batch[1].metrics[1] = batch[1].metrics[2]
    /\ batch[1].metrics[1].metric_type = "counter"
    /\ full_name(batch[1].metrics[1].name) \in DOMAIN snap[1].counters
    /\ CountOf(snap[1]) = 1

\* The error with which update_metric answers measurement m on contents c when
\* it does not get as far as the instrument.
FirstUpdateError(c, m) ==
    IF full_name(m.name) \notin DOMAIN c.label_keys THEN NotRegistered(full_name(m.name))
    ELSE IF m.metric_type = "summary" THEN SummaryNotSupported("MetricsProcessingError")
    ELSE InstrumentMissing(m.metric_type, full_name(m.name))

\* C26: process_metric attempts register_metric only when the first update
\* failed because the name was not registered; when the first update fails for a
\* registered name (type mismatch, summary type) no registration is attempted and
\* the item's error is the error of that update.
C26_RegisterOnlyWhenUnknown ==
    ItemFinished(1)
    => LET name == full_name(cur[1].name)
           known == name \in DOMAIN snap[1].label_keys
       IN /\ (\E i \in 1..Len(trace[1]) : trace[1][i] = "register_metric") => ~known
          /\ (known /\ ~results[1][idx[1]].ok)
             => /\ trace[1] = <<"update_metric">>
                /\ results[1][idx[1]] = FirstUpdateError(snap[1], cur[1])

\* Every measurement of every worker's batch is a counter observation of x with
\* the labels {a: u}: all calls address one counter series.
OneCounterSeries ==
    \A p \in Procs : \A i \in 1..Len(batch[p].metrics) :
        /\ batch[p].metrics[i].name = x
        /\ batch[p].metrics[i].metric_type = "counter"
        /\ batch[p].metrics[i].labels = Labels1(ka, u)

RECURSIVE ProcessedSum(_, _)
\* The sum of the values of the measurements ms whose results rs are Ok.
ProcessedSum(ms, rs) ==
    IF ms = <<>> \/ rs = <<>> THEN 0
    ELSE (IF Head(rs).ok THEN Head(ms).value ELSE 0) + ProcessedSum(Tail(ms), Tail(rs))

\* The value of the counter series x{a="u"}, 0 while it does not exist.
CounterSeriesValue ==
    IF full_name(x) \in DOMAIN counters
    THEN Child(counters[full_name(x)], <<u>>, 0)
    ELSE 0

\* C27: when concurrent process_batch calls update one counter series, first
\* observations that register the name included, no update is lost: in every
\* interleaving, once the calls are over, the series holds the sum of the values
\* of the measurements that the calls report as processed, and each call's
\* processed count is the number of its measurements that went in.
C27_NoLostUpdate ==
    (OneCounterSeries /\ \A p \in Procs : pc[p] = "done")
    => /\ CounterSeriesValue
            = ProcessedSum(batch[1].metrics, results[1])
              + ProcessedSum(batch[2].metrics, results[2])
       /\ \A p \in Procs : Returned(p) => response[p].processed = NumOk(results[p])

\* Both workers made a first observation of the series, with different values,
\* each beginning before the name was registered, and both report it processed.
C27_Witness ==
    /\ OneCounterSeries
    /\ \A p \in Procs : 
          /\ pc[p] = "done"
          /\ Len(batch[p].metrics) = 1
          /\ snap[p].registry = {}
          /\ trace[p] = <<"update_metric", "register_metric", "update_metric">>
          /\ response[p].processed = 1
    /\ batch[1].metrics[1].value # batch[2].metrics[1].value
    /\ CounterSeriesValue = 3

\* The instrument that update_metric of worker p is about to address, in a
\* one-element set, or the empty set when the map of the measurement's type has
\* none under the name.
Addressed(p) ==
    LET name == full_name(cur[p].name)
        map == CASE cur[p].metric_type = "counter" -> counters
                 [] cur[p].metric_type = "gauge" -> gauges
                 [] cur[p].metric_type = "histogram" -> histograms
                 [] OTHER -> [k \in {} |-> 0]
    IN IF name \in DOMAIN map THEN {map[name]} ELSE {}

\* C28: every update_metric call hands its instrument as many label values as
\* the instrument has label names, in every interleaving, two first observations
\* of one name with different label keys included; no call unwinds in
\* with_label_values.
C28_ArityMatches ==
    \A p \in Procs :
        /\ pc[p] = "upd_map" => \A vec \in Addressed(p) : Len(lv[p]) = Len(vec.label_names)
        /\ ret[p] # Panic

\* C29: in every reachable state, states in the middle of concurrent
\* registrations of one name with different types included, the three instrument
\* maps have no key in common: a qualified name is a counter, a gauge or a
\* histogram, never two of them.
C29_MapsDisjoint ==
    /\ DOMAIN counters \cap DOMAIN gauges = {}
    /\ DOMAIN counters \cap DOMAIN histograms = {}
    /\ DOMAIN gauges \cap DOMAIN histograms = {}

\* Worker 2's gauge registration of x was refused while worker 1, which had
\* found the name as unregistered as worker 2 had, was past creating the counter
\* x and had not yet returned.
C29_Witness ==
    /\ batch[1].metrics # <<>> /\ batch[2].metrics # <<>>
    /\ batch[1].metrics[1].metric_type = "counter"
    /\ batch[2].metrics[1].metric_type = "gauge"
    /\ snap[1].registry = {} /\ snap[2].registry = {}
    /\ pc[1] = "reg_lk"
    /\ pc[2] = "loop" /\ idx[2] = 1
    /\ ~results[2][1].ok
    /\ trace[2] = <<"update_metric", "register_metric">>
    /\ DOMAIN counters = {full_name(x)}
    /\ DOMAIN gauges = {}

\* Worker p is inside a call that has not returned yet.
Running(p) == pc[p] \notin {"idle", "done"}

\* What the positions say about the locks: a worker holds the label_keys read
\* lock exactly while its update_metric is about to take the read lock of one
\* instrument map, the only place where a second lock is taken while one is
\* held; a worker about to take the label_keys write lock, or any lock of
\* get_metrics_count, holds no lock.
LockNesting ==
    \A p \in Procs :
        /\ p \in lk_readers <=> pc[p] = "upd_map"
        /\ pc[p] \in {"reg_lk", "cnt_c", "cnt_g", "cnt_h"} => p \notin lk_readers

\* C30: no interleaving of concurrent register_metric, update_metric,
\* get_metrics_count and gather calls deadlocks: locks nest only as label_keys
\* read then one instrument-map read, nobody waits for label_keys while holding
\* a lock, and under fair scheduling every call that has started returns.
C30_NoDeadlock ==
    /\ [](LockNesting)
    /\ \A p \in Procs : Running(p) ~> ~Running(p)

\* Worker 1's register_metric waits for the label_keys write lock while worker
\* 2's update_metric holds the read lock and is about to read the counters map.
C30_Witness ==
    /\ pc[1] = "reg_lk"
    /\ op[1] = "register_metric"
    /\ pc[2] = "upd_map"
    /\ op[2] = "update_metric"
    /\ lk_readers = {2}
    /\ ~ENABLED RecordLabelKeys(1)

\* process_metric has returned an error for item idx[p] of worker p's batch.
ItemFailed(p) == ItemFinished(p) /\ ~results[p][idx[p]].ok

\* C31: a measurement that process_batch records as failed leaves the registry
\* as it was when the measurement began: the registered names, the count, every
\* label schema and every series value; no instrument is left half created (in
\* a map and not in the prometheus registry, or the reverse) and no schema is
\* left without an instrument.
C31_FailedItemLeavesRegistry ==
    ItemFailed(1)
    => /\ Contents = snap[1]
       /\ MetricsCount = CountOf(snap[1])
       /\ Gather(Contents) = Gather(snap[1])
       /\ \A n \in registry \cup DOMAIN label_keys : InstrumentsFor(n) = 1
       /\ MetricsCount = Cardinality(registry)

\* The second measurement of a batch, a gauge for the name that the first one
\* has just made a counter with a series, went through a registration attempt
\* and was recorded as failed.
C31_Witness ==
    /\ ItemFailed(1)
    /\ idx[1] = 2
    /\ results[1][1].ok
    /\ cur[1].metric_type = "gauge"
    /\ trace[1] = <<"update_metric", "register_metric">>
    /\ full_name(cur[1].name) \in DOMAIN counters
    /\ DOMAIN counters[full_name(cur[1].name)].children # {}
    /\ response[1].processed = 1
    /\ Len(response[1].errors) = 1

\* C32: whenever process_batch returns Ok, processed plus the number of error
\* strings is the number of measurements of the batch: each measurement is
\* accounted for once, as processed when process_metric returned Ok for it and
\* as one error string when it returned an error.
C32_EveryItemAccounted ==
    (BatchReturned(1) /\ ret[1].ok)
    => /\ response[1].processed + Len(response[1].errors) = Len(batch[1].metrics)
       /\ Len(results[1]) = Len(batch[1].metrics)
       /\ response[1].processed = NumOk(results[1])
       /\ Len(response[1].errors) = NumFailed(results[1])

\* process_batch has returned Ok for a batch of three of which one measurement
\* was processed and two were answered with an error.
C32_Witness ==
    /\ BatchReturned(1)
    /\ ret[1].ok
    /\ Len(batch[1].metrics) = 3
    /\ response[1].processed = 1
    /\ Len(response[1].errors) = 2

\* The measurements of batch b differ pairwise in name or label map.
PairwiseDifferent(b) ==
    \A j \in 1..Len(b.metrics) : \A i \in 1..(j-1) : ~SameIdentity(b, i, j)

\* C33: batch validation reports a duplicate only for a real duplicate: a batch
\* whose measurements are valid and differ pairwise in (name, label map) is
\* never answered with the duplicate error, label values with ',' or '=' in
\* them included.
C33_OnlyRealDuplicates ==
    (/\ Validated("validate_batch")
     /\ ~SomeItemInvalid(batch[1])
     /\ PairwiseDifferent(batch[1]))
    => ret[1].msg # "Duplicate metric found: {} with the same set of labels"

\* The names that contents c holds an instrument for.
InstrumentNames(c) == DOMAIN c.counters \cup DOMAIN c.gauges \cup DOMAIN c.histograms

\* C34: gather() returns the placeholder line only when nothing is registered:
\* whenever get_metrics_count() is positive, a name that was registered and not
\* yet updated included, the text is not the placeholder and has lines for the
\* qualified name of every registered instrument.
C34_GatherNamesEveryInstrument ==
    (/\ pc[1] = "done"
     /\ op[1] = "gather"
     /\ CountOf(snap[1]) > 0)
    => /\ ret[1].ok
       /\ ret[1].arg # <<[line |-> "#", name |-> <<>>,
                          text |-> "No metrics found in registry"]>>
       /\ \A n \in InstrumentNames(snap[1]) :
             \E i \in 1..Len(ret[1].arg) : ret[1].arg[i].name = n

====
